---- MODULE Spec2Model ----
(***************************************************************************)
(* Model of the safe boundary layer of photodna-rs: the generator          *)
(* lifecycle of photodna-sys (EdgeHashGenerator::new / Drop) and the       *)
(* validating hash operations of the photodna crate (Generator).           *)
(*                                                                         *)
(* Unsigned 32-bit and usize values are kept at their full width.  They    *)
(* are written as little-endian strings of base-256 digits (bytes), so a   *)
(* u32 is a sequence of 4 digits and a usize a sequence of usize_bytes     *)
(* digits; i32 values fit the integers of the checker and are plain.       *)
(***************************************************************************)
EXTENDS Integers, Sequences, FiniteSets, TLC

(***************************************************************************)
(* Bounds of the model.                                                    *)
(***************************************************************************)
\* number of distinct non-null instance handles native init may return
MaxHandles == 2

(***************************************************************************)
(* Fixed-width arithmetic on digit strings.                                *)
(***************************************************************************)
Pow256(i) == IF i = 0 THEN 1 ELSE IF i = 1 THEN 256 ELSE IF i = 2 THEN 65536 ELSE 16777216

\* the k-digit string of a natural number n < 2^31
NatToDigits(n, k) == [i \in 1..k |-> IF i <= 4 THEN (n \div Pow256(i - 1)) % 256 ELSE 0]

\* zero-extension (or truncation) of a digit string to k digits
Resize(a, k) == [i \in 1..k |-> IF i <= Len(a) THEN a[i] ELSE 0]

IsZero(a) == \A i \in 1..Len(a) : a[i] = 0

\* a and b denote the same number (lengths may differ)
DigitsEq(a, b) ==
    LET k == IF Len(a) > Len(b) THEN Len(a) ELSE Len(b)
    IN  Resize(a, k) = Resize(b, k)

\* a < b as numbers (lengths may differ)
DigitsLess(a, b) ==
    LET k == IF Len(a) > Len(b) THEN Len(a) ELSE Len(b)
        x == Resize(a, k)
        y == Resize(b, k)
    IN  \E i \in 1..k : x[i] < y[i] /\ \A j \in (i + 1)..k : x[j] = y[j]

RECURSIVE AddFrom(_, _, _, _)
\* the digits of a + b from position i on, given the carry into position i
AddFrom(a, b, i, carry) ==
    IF i > Len(a) THEN <<carry>>
    ELSE <<(a[i] + b[i] + carry) % 256>> \o AddFrom(a, b, i + 1, (a[i] + b[i] + carry) \div 256)

\* the exact sum of two k-digit strings, k + 1 digits
AddFull(a, b) == AddFrom(a, b, 1, 0)

RECURSIVE ColSum(_, _, _, _)
\* sum of a[i] * b[j - i + 1] over the first n digits i of a
ColSum(a, b, j, n) ==
    IF n = 0 THEN 0
    ELSE ColSum(a, b, j, n - 1)
         + (IF j - n + 1 >= 1 /\ j - n + 1 <= Len(b) THEN a[n] * b[j - n + 1] ELSE 0)

RECURSIVE MulFrom(_, _, _, _)
\* the digits of a * b from position j on, given the carry into position j
MulFrom(a, b, j, carry) ==
    IF j > Len(a) + Len(b) THEN <<>>
    ELSE <<(ColSum(a, b, j, Len(a)) + carry) % 256>>
            \o MulFrom(a, b, j + 1, (ColSum(a, b, j, Len(a)) + carry) \div 256)

\* the exact product of two digit strings, Len(a) + Len(b) digits
MulFull(a, b) == MulFrom(a, b, 1, 0)

\* the digits of a above position k are not all zero
HighPart(a, k) == \E i \in (k + 1)..Len(a) : a[i] # 0

\* the conversion `v as i32` of a u32: the two's complement reading of its 4 digits
AsI32(a) ==
    (IF a[4] >= 128 THEN a[4] - 256 ELSE a[4]) * 16777216 + a[3] * 65536 + a[2] * 256 + a[1]

\* the conversion `v as usize` of a u32 on a target whose usize has n bytes (n >= 4)
AsUsize(a, n) == Resize(a, n)

RECURSIVE BitOr(_, _)
\* bitwise OR of two non-negative integers (the operator | on u32 option words)
BitOr(x, y) ==
    IF x = 0 THEN y
    ELSE IF y = 0 THEN x
    ELSE (IF x % 2 = 1 \/ y % 2 = 1 THEN 1 ELSE 0) + 2 * BitOr(x \div 2, y \div 2)

(***************************************************************************)
(* Constants of photodna-sys.                                              *)
(***************************************************************************)
PHOTODNA_HASH_SIZE_EDGE_V2 == 924
PHOTODNA_HASH_SIZE_MAX == 1232
PHOTODNA_HASH_SIZE_EDGE_V2_BASE64 == 1232
HASH_SIZE == PHOTODNA_HASH_SIZE_EDGE_V2

PhotoDna_ErrorUnknown == -7000
PhotoDna_ErrorMemoryAllocationFailed == -7001
PhotoDna_ErrorLibraryFailure == -7002
PhotoDna_ErrorMemoryAccess == -7003
PhotoDna_ErrorInvalidHash == -7004
PhotoDna_ErrorHashFormatInvalidCharacters == -7005
PhotoDna_ErrorImageTooSmall == -7006
PhotoDna_ErrorNoBorder == -7007
PhotoDna_ErrorBadArgument == -7008
PhotoDna_ErrorImageIsFlat == -7009
PhotoDna_ErrorNoBorderImageTooSmall == -7010
PhotoDna_ErrorSourceFormatUnknown == -7011
PhotoDna_ErrorInvalidStride == -7012
PhotoDna_ErrorInvalidSubImage == -7013

PhotoDna_HashFormatMask == 240
PhotoDna_HashFormatEdgeV2 == 128
PhotoDna_HashFormatEdgeV2Base64 == 144
PhotoDna_Rgb == 0
PhotoDna_Rgba == 256
PhotoDna_RgbaPm == 1792
PhotoDna_Argb == 512
PhotoDna_Cmyk == 768
PhotoDna_Grey8 == 1024
PhotoDna_Grey32 == 1280
PhotoDna_YCbCr == 1536
PhotoDna_Yuv420p == 2048
PhotoDna_RemoveBorder == 2097152
PhotoDna_NoRotateFlip == 16777216
PhotoDna_CheckMemory == 536870912
PhotoDna_Verbose == 1073741824

(***************************************************************************)
(* PixelFormat and HashOptions (photodna/src/lib.rs).                      *)
(***************************************************************************)
PixelFormat ==
    {"Rgb", "Bgr", "Rgba", "RgbaPremultiplied", "Bgra", "Argb", "Abgr",
     "Cmyk", "Gray8", "Gray32", "YCbCr", "Yuv420p"}

bytes_per_pixel(f) ==
    IF f \in {"Rgb", "Bgr", "YCbCr"} THEN 3
    ELSE IF f \in {"Rgba", "RgbaPremultiplied", "Bgra", "Argb", "Abgr", "Cmyk", "Gray32"} THEN 4
    ELSE IF f = "Gray8" THEN 1
    ELSE 2

\* a to_options that gives pre-multiplied RGBA the layout of RGBA
to_options_premultiplied_as_rgba(f) ==
    IF f \in {"Rgb", "Bgr"} THEN PhotoDna_Rgb
    ELSE IF f \in {"Rgba", "Bgra", "RgbaPremultiplied"} THEN PhotoDna_Rgba
    ELSE IF f \in {"Argb", "Abgr"} THEN PhotoDna_Argb
    ELSE IF f = "Cmyk" THEN PhotoDna_Cmyk
    ELSE IF f = "Gray8" THEN PhotoDna_Grey8
    ELSE IF f = "Gray32" THEN PhotoDna_Grey32
    ELSE IF f = "YCbCr" THEN PhotoDna_YCbCr
    ELSE PhotoDna_Yuv420p

\* PixelFormat::to_options
to_options(f) ==
    IF f \in {"Rgb", "Bgr"} THEN PhotoDna_Rgb
    ELSE IF f \in {"Rgba", "Bgra"} THEN PhotoDna_Rgba
    ELSE IF f = "RgbaPremultiplied" THEN PhotoDna_RgbaPm
    ELSE IF f \in {"Argb", "Abgr"} THEN PhotoDna_Argb
    ELSE IF f = "Cmyk" THEN PhotoDna_Cmyk
    ELSE IF f = "Gray8" THEN PhotoDna_Grey8
    ELSE IF f = "Gray32" THEN PhotoDna_Grey32
    ELSE IF f = "YCbCr" THEN PhotoDna_YCbCr
    ELSE PhotoDna_Yuv420p

\* HashOptions values: the struct of five fields
HashOptions ==
    [pixel_format : PixelFormat, remove_border : BOOLEAN, no_rotate_flip : BOOLEAN,
     verbose : BOOLEAN, check_memory : BOOLEAN]

\* HashOptions::default(): Rgb and no flag
HashOptionsDefault ==
    [pixel_format |-> "Rgb", remove_border |-> FALSE, no_rotate_flip |-> FALSE,
     verbose |-> FALSE, check_memory |-> FALSE]

\* a to_sys_options that sets the verbose bit for check_memory as well
to_sys_options_check_memory_as_verbose(o) ==
    LET o0 == BitOr(PhotoDna_HashFormatEdgeV2, to_options(o.pixel_format))
        o1 == IF o.remove_border THEN BitOr(o0, PhotoDna_RemoveBorder) ELSE o0
        o2 == IF o.no_rotate_flip THEN BitOr(o1, PhotoDna_NoRotateFlip) ELSE o1
        o3 == IF o.verbose THEN BitOr(o2, PhotoDna_Verbose) ELSE o2
        o4 == IF o.check_memory THEN BitOr(o3, PhotoDna_Verbose) ELSE o3
    IN  o4

\* HashOptions::to_sys_options
to_sys_options(o) ==
    LET o0 == BitOr(PhotoDna_HashFormatEdgeV2, to_options(o.pixel_format))
        o1 == IF o.remove_border THEN BitOr(o0, PhotoDna_RemoveBorder) ELSE o0
        o2 == IF o.no_rotate_flip THEN BitOr(o1, PhotoDna_NoRotateFlip) ELSE o1
        o3 == IF o.verbose THEN BitOr(o2, PhotoDna_Verbose) ELSE o2
        o4 == IF o.check_memory THEN BitOr(o3, PhotoDna_CheckMemory) ELSE o3
    IN  o4

RECURSIVE BitAnd(_, _)
\* bitwise AND of two non-negative integers (the operator & on u32 option words)
BitAnd(x, y) ==
    IF x = 0 \/ y = 0 THEN 0
    ELSE (IF x % 2 = 1 /\ y % 2 = 1 THEN 1 ELSE 0) + 2 * BitAnd(x \div 2, y \div 2)

\* a hash_size_for_options with the two sizes exchanged
hash_size_for_options_exchanged(options) ==
    LET format == BitAnd(options, PhotoDna_HashFormatMask)
    IN  IF format = PhotoDna_HashFormatEdgeV2Base64 THEN PHOTODNA_HASH_SIZE_EDGE_V2
        ELSE PHOTODNA_HASH_SIZE_EDGE_V2_BASE64

\* photodna_sys::hash_size_for_options
hash_size_for_options(options) ==
    LET format == BitAnd(options, PhotoDna_HashFormatMask)
    IN  IF format = PhotoDna_HashFormatEdgeV2Base64 THEN PHOTODNA_HASH_SIZE_EDGE_V2_BASE64
        ELSE PHOTODNA_HASH_SIZE_EDGE_V2

(***************************************************************************)
(* PhotoDnaError (photodna/src/error.rs).                                  *)
(***************************************************************************)
\* Option values
None == [some |-> FALSE]
Some(v) == [some |-> TRUE, value |-> v]

\* an error_code that has no code for InvalidSubImage
error_code_drops_sub_image(e) ==
    IF e.kind = "Unknown" THEN Some(PhotoDna_ErrorUnknown)
    ELSE IF e.kind = "MemoryAllocationFailed" THEN Some(PhotoDna_ErrorMemoryAllocationFailed)
    ELSE IF e.kind = "LibraryFailure" THEN Some(PhotoDna_ErrorLibraryFailure)
    ELSE IF e.kind = "MemoryAccess" THEN Some(PhotoDna_ErrorMemoryAccess)
    ELSE IF e.kind = "InvalidHash" THEN Some(PhotoDna_ErrorInvalidHash)
    ELSE IF e.kind = "HashFormatInvalidCharacters"
         THEN Some(PhotoDna_ErrorHashFormatInvalidCharacters)
    ELSE IF e.kind = "ImageTooSmall" THEN Some(PhotoDna_ErrorImageTooSmall)
    ELSE IF e.kind = "NoBorder" THEN Some(PhotoDna_ErrorNoBorder)
    ELSE IF e.kind = "BadArgument" THEN Some(PhotoDna_ErrorBadArgument)
    ELSE IF e.kind = "ImageIsFlat" THEN Some(PhotoDna_ErrorImageIsFlat)
    ELSE IF e.kind = "NoBorderImageTooSmall" THEN Some(PhotoDna_ErrorNoBorderImageTooSmall)
    ELSE IF e.kind = "SourceFormatUnknown" THEN Some(PhotoDna_ErrorSourceFormatUnknown)
    ELSE IF e.kind = "InvalidStride" THEN Some(PhotoDna_ErrorInvalidStride)
    ELSE IF e.kind = "UnknownErrorCode" THEN Some(e.code)
    ELSE None

\* PhotoDnaError::error_code: the match on self
error_code(e) ==
    IF e.kind = "Unknown" THEN Some(PhotoDna_ErrorUnknown)
    ELSE IF e.kind = "MemoryAllocationFailed" THEN Some(PhotoDna_ErrorMemoryAllocationFailed)
    ELSE IF e.kind = "LibraryFailure" THEN Some(PhotoDna_ErrorLibraryFailure)
    ELSE IF e.kind = "MemoryAccess" THEN Some(PhotoDna_ErrorMemoryAccess)
    ELSE IF e.kind = "InvalidHash" THEN Some(PhotoDna_ErrorInvalidHash)
    ELSE IF e.kind = "HashFormatInvalidCharacters"
         THEN Some(PhotoDna_ErrorHashFormatInvalidCharacters)
    ELSE IF e.kind = "ImageTooSmall" THEN Some(PhotoDna_ErrorImageTooSmall)
    ELSE IF e.kind = "NoBorder" THEN Some(PhotoDna_ErrorNoBorder)
    ELSE IF e.kind = "BadArgument" THEN Some(PhotoDna_ErrorBadArgument)
    ELSE IF e.kind = "ImageIsFlat" THEN Some(PhotoDna_ErrorImageIsFlat)
    ELSE IF e.kind = "NoBorderImageTooSmall" THEN Some(PhotoDna_ErrorNoBorderImageTooSmall)
    ELSE IF e.kind = "SourceFormatUnknown" THEN Some(PhotoDna_ErrorSourceFormatUnknown)
    ELSE IF e.kind = "InvalidStride" THEN Some(PhotoDna_ErrorInvalidStride)
    ELSE IF e.kind = "InvalidSubImage" THEN Some(PhotoDna_ErrorInvalidSubImage)
    ELSE IF e.kind = "UnknownErrorCode" THEN Some(e.code)
    ELSE None

\* an is_recoverable that also takes codes it does not know for transient
is_recoverable_unknown_too(e) ==
    e.kind \in {"MemoryAllocationFailed", "LibraryFailure", "MemoryAccess", "UnknownErrorCode"}

\* PhotoDnaError::is_recoverable
is_recoverable(e) ==
    e.kind \in {"MemoryAllocationFailed", "LibraryFailure", "MemoryAccess"}

\* an is_input_error that leaves out the errors found before the native call
is_input_error_native_only(e) ==
    e.kind \in {"ImageTooSmall", "ImageIsFlat", "BadArgument", "InvalidStride",
                "InvalidSubImage", "SourceFormatUnknown", "NoBorderImageTooSmall"}

\* PhotoDnaError::is_input_error
is_input_error(e) ==
    e.kind \in {"ImageTooSmall", "ImageIsFlat", "BadArgument", "InvalidStride",
                "InvalidSubImage", "SourceFormatUnknown", "BufferTooSmall",
                "InvalidDimensions", "NoBorderImageTooSmall"}

\* a from_error_code that maps every code it does not know to Unknown
from_error_code_collapsing(code) ==
    IF code \in PhotoDna_ErrorInvalidSubImage..PhotoDna_ErrorUnknown
    THEN CHOOSE e \in [kind : {"Unknown", "MemoryAllocationFailed", "LibraryFailure",
                               "MemoryAccess", "InvalidHash", "HashFormatInvalidCharacters",
                               "ImageTooSmall", "NoBorder", "BadArgument", "ImageIsFlat",
                               "NoBorderImageTooSmall", "SourceFormatUnknown",
                               "InvalidStride", "InvalidSubImage"}] :
             error_code(e) = Some(code)
    ELSE [kind |-> "Unknown"]

\* PhotoDnaError::from_error_code: the match on code
from_error_code(code) ==
    IF code = PhotoDna_ErrorUnknown THEN [kind |-> "Unknown"]
    ELSE IF code = PhotoDna_ErrorMemoryAllocationFailed THEN [kind |-> "MemoryAllocationFailed"]
    ELSE IF code = PhotoDna_ErrorLibraryFailure THEN [kind |-> "LibraryFailure"]
    ELSE IF code = PhotoDna_ErrorMemoryAccess THEN [kind |-> "MemoryAccess"]
    ELSE IF code = PhotoDna_ErrorInvalidHash THEN [kind |-> "InvalidHash"]
    ELSE IF code = PhotoDna_ErrorHashFormatInvalidCharacters
         THEN [kind |-> "HashFormatInvalidCharacters"]
    ELSE IF code = PhotoDna_ErrorImageTooSmall THEN [kind |-> "ImageTooSmall"]
    ELSE IF code = PhotoDna_ErrorNoBorder THEN [kind |-> "NoBorder"]
    ELSE IF code = PhotoDna_ErrorBadArgument THEN [kind |-> "BadArgument"]
    ELSE IF code = PhotoDna_ErrorImageIsFlat THEN [kind |-> "ImageIsFlat"]
    ELSE IF code = PhotoDna_ErrorNoBorderImageTooSmall THEN [kind |-> "NoBorderImageTooSmall"]
    ELSE IF code = PhotoDna_ErrorSourceFormatUnknown THEN [kind |-> "SourceFormatUnknown"]
    ELSE IF code = PhotoDna_ErrorInvalidStride THEN [kind |-> "InvalidStride"]
    ELSE IF code = PhotoDna_ErrorInvalidSubImage THEN [kind |-> "InvalidSubImage"]
    ELSE [kind |-> "UnknownErrorCode", code |-> code]

(***************************************************************************)
(* State.                                                                  *)
(***************************************************************************)
VARIABLES
    build,            \* the build: overflow checks on or off, bytes of usize, SDK configured
    state,            \* "Uninitialized", "Loaded" (a generator exists) or "Released"
    library,          \* the native module: "none", "loaded" or "unloaded"
    fn_table,         \* the symbols resolved from the module and still held
    library_instance, \* the instance handle held by the generator (NULL when none)
    log,              \* loader and init/release events of the latest construction
    new_result,       \* the value the latest Generator::new returned
    call,             \* the latest operation and what it did
    hashes            \* the Hash values the caller holds

vars == <<build, state, library, fn_table, library_instance, log, new_result, call, hashes>>

NULL == 0

\* the non-null handles native init may return
Handles == 1..MaxHandles

\* the exported names EdgeHashGenerator::new resolves, in the order it resolves them
RequiredSymbols ==
    <<"EdgeHashGeneratorInit", "EdgeHashGeneratorRelease", "GetErrorNumber",
      "GetErrorString", "LibraryVersion", "LibraryVersionMajor", "LibraryVersionMinor",
      "LibraryVersionPatch", "LibraryVersionText", "PhotoDnaEdgeHash",
      "PhotoDnaEdgeHashBorder", "PhotoDnaEdgeHashBorderSub", "PhotoDnaEdgeHashSub">>

SymbolSet == {RequiredSymbols[i] : i \in 1..Len(RequiredSymbols)}

\* the builds of the crate: arithmetic overflow panics (debug) or wraps (release),
\* usize has 4 or 8 bytes, and the SDK was or was not configured at build time
Builds == [overflow_checks : BOOLEAN, usize_bytes : {4, 8}, no_sdk : BOOLEAN]

NoCall == [op |-> "none"]
NoNative == [entry |-> "none"]

(***************************************************************************)
(* GeneratorOptions (photodna/src/lib.rs).                                 *)
(***************************************************************************)
GeneratorOptionsDefault == [max_threads |-> 4, library_dir |-> "default"]

\* a max_threads that stores what it is given
max_threads_unclamped(self, threads) == [self EXCEPT !.max_threads = threads]

\* GeneratorOptions::max_threads: threads.max(1)
max_threads(self, threads) == [self EXCEPT !.max_threads = IF threads > 1 THEN threads ELSE 1]

library_dir(self, path) == [self EXCEPT !.library_dir = path]

\* the thread counts and directories callers hand to the builder
ThreadInputs == {-5, 0, 8}
DirInputs == {"custom"}

\* the options values a caller can build
GeneratorOptionsInputs ==
    LET once == {GeneratorOptionsDefault}
                    \cup {max_threads(GeneratorOptionsDefault, t) : t \in ThreadInputs}
                    \cup {library_dir(GeneratorOptionsDefault, d) : d \in DirInputs}
    IN  once \cup {max_threads(o, t) : o \in once, t \in ThreadInputs}
             \cup {library_dir(o, d) : o \in once, d \in DirInputs}

(***************************************************************************)
(* EdgeHashGenerator::new and Generator::new.                              *)
(***************************************************************************)
\* an event: the loader or native entry point called, its argument, what it returned
Event(op, arg, ret) == [op |-> op, arg |-> arg, ret |-> ret]

\* the events of resolving the first n required symbols, the last of which is missing
\* if miss is TRUE
GetEvents(n, miss) ==
    [i \in 1..n |-> Event("get", RequiredSymbols[i], IF miss /\ i = n THEN "missing" ELSE "ok")]

\* index of the first required symbol the module does not export, 0 if none
FirstMissing(exported) ==
    IF \A i \in 1..Len(RequiredSymbols) : RequiredSymbols[i] \in exported THEN 0
    ELSE CHOOSE i \in 1..Len(RequiredSymbols) :
            /\ RequiredSymbols[i] \notin exported
            /\ \A j \in 1..(i - 1) : RequiredSymbols[j] \in exported

\* what a failed construction leaves behind
Failed(events, lib) ==
    [ok |-> FALSE, log |-> events, library |-> lib, fns |-> {}, instance |-> NULL]

\* EdgeHashGenerator::new that keeps the module loaded when init returns null
EdgeHashGeneratorNew_keeps_module(b, dir, threads, load_ok, exported, cstring_ok, inst) ==
    LET n == Len(RequiredSymbols)
        m == FirstMissing(exported)
        load == <<Event("load", dir, load_ok)>>
        unload == <<Event("unload", dir, TRUE)>>
        init == <<Event("init", threads, inst)>>
    IN  IF b.no_sdk THEN Failed(<<>>, "none")
        ELSE IF ~load_ok THEN Failed(load, "none")
        ELSE IF m # 0 THEN Failed(load \o GetEvents(m, TRUE) \o unload, "unloaded")
        ELSE IF ~cstring_ok THEN Failed(load \o GetEvents(n, FALSE) \o unload, "unloaded")
        ELSE IF inst = NULL THEN Failed(load \o GetEvents(n, FALSE) \o init, "loaded")
        ELSE
            [ok |-> TRUE, log |-> load \o GetEvents(n, FALSE) \o init,
             library |-> "loaded", fns |-> SymbolSet \ {"EdgeHashGeneratorInit"},
             instance |-> inst]

\* EdgeHashGenerator::new(library_dir, max_threads) in an environment where loading
\* succeeds or not, the module exports `exported`, the directory converts to a C
\* string or not, and native init returns `inst`.  The result: the events performed
\* and what is left behind.  The local `library` is dropped, which unloads the
\* module, on every early return after the load.
EdgeHashGeneratorNew(b, dir, threads, load_ok, exported, cstring_ok, inst) ==
    LET n == Len(RequiredSymbols)
        m == FirstMissing(exported)
        load == <<Event("load", dir, load_ok)>>
        unload == <<Event("unload", dir, TRUE)>>
        init == <<Event("init", threads, inst)>>
    IN  IF b.no_sdk THEN Failed(<<>>, "none")
        ELSE IF ~load_ok THEN Failed(load, "none")
        ELSE IF m # 0 THEN Failed(load \o GetEvents(m, TRUE) \o unload, "unloaded")
        ELSE IF ~cstring_ok THEN Failed(load \o GetEvents(n, FALSE) \o unload, "unloaded")
        ELSE IF inst = NULL THEN
            Failed(load \o GetEvents(n, FALSE) \o init \o unload, "unloaded")
        ELSE
            [ok |-> TRUE, log |-> load \o GetEvents(n, FALSE) \o init,
             library |-> "loaded", fns |-> SymbolSet \ {"EdgeHashGeneratorInit"},
             instance |-> inst]

\* the export tables tried: the complete one, and each with one symbol missing
ExportTables == {SymbolSet} \cup {SymbolSet \ {s} : s \in SymbolSet}

\* Generator::new(options)
GeneratorNew ==
    /\ state = "Uninitialized"
    /\ \E options \in GeneratorOptionsInputs, load_ok \in BOOLEAN, exported \in ExportTables,
          cstring_ok \in BOOLEAN, inst \in {NULL} \cup Handles :
          LET r == EdgeHashGeneratorNew(build, options.library_dir, options.max_threads,
                                        load_ok, exported, cstring_ok, inst)
          IN  /\ log' = r.log
              /\ library' = r.library
              /\ fn_table' = r.fns
              /\ library_instance' = r.instance
              /\ state' = IF r.ok THEN "Loaded" ELSE "Uninitialized"
              /\ new_result' = IF r.ok THEN "Ok" ELSE "InitializationFailed"
    /\ UNCHANGED <<build, call, hashes>>

(***************************************************************************)
(* impl Drop for EdgeHashGenerator.                                        *)
(***************************************************************************)
\* a drop that unloads the module before it releases the instance
DropEvents_unload_first(inst, dir) ==
    <<Event("unload", dir, TRUE), Event("release", inst, TRUE)>>

\* the events of dropping a generator: the body of drop, then the drop of the fields
DropEvents(inst, dir) == <<Event("release", inst, TRUE), Event("unload", dir, TRUE)>>

\* the generator goes out of scope; the owner can drop a value only once
\* a drop after which the generator can still be used
Drop_keeps_usable ==
    /\ state = "Loaded"
    /\ \A i \in 1..Len(log) : log[i].op # "release"
    /\ log' = log \o DropEvents(library_instance, log[1].arg)
    /\ state' = "Loaded"
    /\ library' = "unloaded"
    /\ fn_table' = {}
    /\ UNCHANGED <<build, library_instance, new_result, call, hashes>>

\* drop(generator)
Drop ==
    /\ state = "Loaded"
    /\ log' = log \o DropEvents(library_instance, log[1].arg)
    /\ state' = "Released"
    /\ library' = "unloaded"
    /\ fn_table' = {}
    /\ UNCHANGED <<build, library_instance, new_result, call, hashes>>

(***************************************************************************)
(* Arithmetic of the build.                                                *)
(***************************************************************************)
\* x + y on u32: the wrapped sum and whether the exact sum does not fit
U32Add(x, y) ==
    LET e == AddFull(x, y)
    IN  [val |-> Resize(e, 4), ovf |-> HighPart(e, 4)]

\* x * y on usize: the wrapped product and whether the exact product does not fit
UsizeMul(b, x, y) ==
    LET e == MulFull(x, y)
    IN  [val |-> Resize(e, b.usize_bytes), ovf |-> HighPart(e, b.usize_bytes)]

(***************************************************************************)
(* Errors and results of the hash operations.                              *)
(***************************************************************************)
InvalidDimensions(w, h) == [kind |-> "InvalidDimensions", width |-> w, height |-> h]
BufferTooSmall(e, a) == [kind |-> "BufferTooSmall", expected |-> e, actual |-> a]
InvalidSubImage == [kind |-> "InvalidSubImage"]

Err(e) == [kind |-> "Err", error |-> e]
Panic == [kind |-> "Panic"]

\* Hash::new(bytes): the 924 bytes and the length HASH_SIZE
HashNew(bytes) == [bytes |-> bytes, len |-> HASH_SIZE]

\* what one run of an operation did: the checks in the order they were made, the
\* native call made (if any), what native code returned and wrote, and the result
Done(trace, native, nat, result) ==
    [trace |-> trace, native |-> native, nat |-> nat, result |-> result]

NoNat == [ret |-> 0, none |-> TRUE]

\* the dimension check of the whole-image operations: width == 0 || height == 0
DimensionsInvalid(width, height) == IsZero(width) \/ IsZero(height)

\* a dimension check of the sub-region operation that forgets the region's extents
SubDimensionsInvalid_image_only(width, height, rw, rh) == IsZero(width) \/ IsZero(height)

\* the dimension check of the sub-region operation
SubDimensionsInvalid(width, height, rw, rh) ==
    IsZero(width) \/ IsZero(height) \/ IsZero(rw) \/ IsZero(rh)

\* a bounds comparison that also rejects a region ending exactly at the limit
Exceeds_or_touches(sum, limit) == ~DigitsLess(sum, limit)

\* the bounds comparison of the region check: rx + rw > width
Exceeds(sum, limit) == DigitsLess(limit, sum)

\* a size check that rejects only an empty buffer
BufferShort_only_empty(len, expected) == IsZero(len) /\ ~IsZero(expected)

\* the buffer-size check: image_data.len() < expected_size
BufferShort(len, expected) == DigitsLess(len, expected)

\* the expected buffer size of compute_hash_with_stride and compute_hash_subregion:
\* the two products, each wrapped, and whether either product overflowed
ExpectedSize(b, width, height, stride, options) ==
    LET n == b.usize_bytes
        bpp == NatToDigits(bytes_per_pixel(options.pixel_format), n)
        expected_stride ==
            IF IsZero(stride) THEN UsizeMul(b, AsUsize(width, n), bpp)
            ELSE [val |-> AsUsize(stride, n), ovf |-> FALSE]
        expected_size == UsizeMul(b, expected_stride.val, AsUsize(height, n))
    IN  [val |-> expected_size.val, ovf |-> expected_stride.ovf \/ expected_size.ovf]

\* the expected buffer size of compute_hash_with_border_detection
ExpectedSizeBorder(b, width, height, options) ==
    LET n == b.usize_bytes
        bpp == NatToDigits(bytes_per_pixel(options.pixel_format), n)
        area == UsizeMul(b, AsUsize(width, n), AsUsize(height, n))
        expected_size == UsizeMul(b, area.val, bpp)
    IN  [val |-> expected_size.val, ovf |-> area.ovf \/ expected_size.ovf]

(***************************************************************************)
(* Generator::compute_hash_with_stride.                                    *)
(***************************************************************************)
\* a test of the native return value that takes every non-zero value for a failure
NativeFailed_nonzero(result) == result # 0

\* the test of the native return value: result < 0
NativeFailed(result) == result < 0

\* nat is what the native entry point returns and writes if it is called
compute_hash_with_stride(b, inst, image_len, width, height, stride, options, nat) ==
    LET width_i32 == AsI32(width)
        height_i32 == AsI32(height)
        stride_i32 == AsI32(stride)
        expected_size == ExpectedSize(b, width, height, stride, options)
        len == NatToDigits(image_len, b.usize_bytes)
        native == [entry |-> "PhotoDnaEdgeHash", instance |-> inst,
                   width |-> width_i32, height |-> height_i32, stride |-> stride_i32,
                   options |-> to_sys_options(options)]
    IN  IF DimensionsInvalid(width, height) THEN
            Done(<<"dimensions:fail">>, NoNative, NoNat,
                 Err(InvalidDimensions(width_i32, height_i32)))
        ELSE IF b.overflow_checks /\ expected_size.ovf THEN
            Done(<<"dimensions:pass", "buffer_size:panic">>, NoNative, NoNat, Panic)
        ELSE IF BufferShort(len, expected_size.val) THEN
            Done(<<"dimensions:pass", "buffer_size:fail">>, NoNative, NoNat,
                 Err(BufferTooSmall(expected_size.val, len)))
        ELSE IF NativeFailed(nat.ret) THEN
            Done(<<"dimensions:pass", "buffer_size:pass", "native">>, native, nat,
                 Err(from_error_code(nat.ret)))
        ELSE
            Done(<<"dimensions:pass", "buffer_size:pass", "native">>, native, nat,
                 [kind |-> "Ok", hash |-> HashNew(nat.hash)])

\* Generator::compute_hash: stride 0
compute_hash(b, inst, image_len, width, height, options, nat) ==
    compute_hash_with_stride(b, inst, image_len, width, height, NatToDigits(0, 4), options, nat)

\* Generator::compute_hash_rgb: the default options
compute_hash_rgb(b, inst, image_len, width, height, nat) ==
    compute_hash(b, inst, image_len, width, height, HashOptionsDefault, nat)

(***************************************************************************)
(* Generator::compute_hash_subregion.                                      *)
(***************************************************************************)
compute_hash_subregion(b, inst, image_len, width, height, stride, region, options, nat) ==
    LET rx == region[1]
        ry == region[2]
        rw == region[3]
        rh == region[4]
        right == U32Add(rx, rw)
        bottom == U32Add(ry, rh)
        width_i32 == AsI32(width)
        height_i32 == AsI32(height)
        stride_i32 == AsI32(stride)
        expected_size == ExpectedSize(b, width, height, stride, options)
        len == NatToDigits(image_len, b.usize_bytes)
        native == [entry |-> "PhotoDnaEdgeHashSub", instance |-> inst,
                   width |-> width_i32, height |-> height_i32, stride |-> stride_i32,
                   x |-> AsI32(rx), y |-> AsI32(ry), w |-> AsI32(rw), h |-> AsI32(rh),
                   options |-> to_sys_options(options)]
    IN  IF b.overflow_checks /\ right.ovf THEN
            Done(<<"region:panic">>, NoNative, NoNat, Panic)
        ELSE IF Exceeds(right.val, width) THEN
            Done(<<"region:fail">>, NoNative, NoNat, Err(InvalidSubImage))
        ELSE IF b.overflow_checks /\ bottom.ovf THEN
            Done(<<"region:panic">>, NoNative, NoNat, Panic)
        ELSE IF Exceeds(bottom.val, height) THEN
            Done(<<"region:fail">>, NoNative, NoNat, Err(InvalidSubImage))
        ELSE IF SubDimensionsInvalid(width, height, rw, rh) THEN
            Done(<<"region:pass", "dimensions:fail">>, NoNative, NoNat,
                 Err(InvalidDimensions(AsI32(rw), AsI32(rh))))
        ELSE IF b.overflow_checks /\ expected_size.ovf THEN
            Done(<<"region:pass", "dimensions:pass", "buffer_size:panic">>,
                 NoNative, NoNat, Panic)
        ELSE IF BufferShort(len, expected_size.val) THEN
            Done(<<"region:pass", "dimensions:pass", "buffer_size:fail">>, NoNative, NoNat,
                 Err(BufferTooSmall(expected_size.val, len)))
        ELSE IF NativeFailed(nat.ret) THEN
            Done(<<"region:pass", "dimensions:pass", "buffer_size:pass", "native">>,
                 native, nat, Err(from_error_code(nat.ret)))
        ELSE
            Done(<<"region:pass", "dimensions:pass", "buffer_size:pass", "native">>,
                 native, nat, [kind |-> "Ok", hash |-> HashNew(nat.hash)])

(***************************************************************************)
(* Generator::compute_hash_with_border_detection.                          *)
(***************************************************************************)
\* sys::HashResult::default(): every field zero
HashResultDefault ==
    [result |-> 0, x |-> 0, y |-> 0, w |-> 0, h |-> 0, head |-> "zero", tail |-> "zero"]

\* an extraction that copies the last HASH_SIZE bytes of the slot's buffer
extract_hash_from_result_tail(slot) ==
    IF slot.result < 0 THEN Err(from_error_code(slot.result))
    ELSE [kind |-> "Ok", hash |-> HashNew(slot.tail)]

\* extract_hash_from_result: the error of a negative result field, else the hash made
\* of the first HASH_SIZE bytes (head) of the PHOTODNA_HASH_SIZE_MAX bytes of the slot
extract_hash_from_result(slot) ==
    IF slot.result < 0 THEN Err(from_error_code(slot.result))
    ELSE [kind |-> "Ok", hash |-> HashNew(slot.head)]

\* nat.ret is the count native code returns, nat.slots the two slots as it leaves them
compute_hash_with_border_detection(b, inst, image_len, width, height, options, nat) ==
    LET width_i32 == AsI32(width)
        height_i32 == AsI32(height)
        expected_size == ExpectedSizeBorder(b, width, height, options)
        len == NatToDigits(image_len, b.usize_bytes)
        native == [entry |-> "PhotoDnaEdgeHashBorder", instance |-> inst,
                   max_hash_count |-> 2,
                   width |-> width_i32, height |-> height_i32, stride |-> 0,
                   options |-> to_sys_options(options)]
        count == nat.ret
        hash_results == nat.slots
        primary == extract_hash_from_result(hash_results[1])
        second == extract_hash_from_result(hash_results[2])
        region == <<hash_results[2].x, hash_results[2].y,
                    hash_results[2].w, hash_results[2].h>>
        passed == <<"dimensions:pass", "buffer_size:pass", "native">>
    IN  IF DimensionsInvalid(width, height) THEN
            Done(<<"dimensions:fail">>, NoNative, NoNat,
                 Err(InvalidDimensions(width_i32, height_i32)))
        ELSE IF b.overflow_checks /\ expected_size.ovf THEN
            Done(<<"dimensions:pass", "buffer_size:panic">>, NoNative, NoNat, Panic)
        ELSE IF BufferShort(len, expected_size.val) THEN
            Done(<<"dimensions:pass", "buffer_size:fail">>, NoNative, NoNat,
                 Err(BufferTooSmall(expected_size.val, len)))
        ELSE IF count < 0 THEN
            Done(passed, native, nat, Err(from_error_code(count)))
        ELSE IF primary.kind = "Err" THEN
            Done(passed, native, nat, primary)
        ELSE IF count >= 2 THEN
            IF second.kind = "Err" THEN Done(passed, native, nat, second)
            ELSE Done(passed, native, nat,
                      [kind |-> "OkBorder", primary |-> primary.hash,
                       borderless |-> [some |-> TRUE, hash |-> second.hash],
                       content_region |-> [some |-> TRUE, region |-> region]])
        ELSE
            Done(passed, native, nat,
                 [kind |-> "OkBorder", primary |-> primary.hash,
                  borderless |-> [some |-> FALSE],
                  content_region |-> [some |-> FALSE]])

(***************************************************************************)
(* Inputs of the operations and answers of the native module.              *)
(***************************************************************************)
U32(n) == NatToDigits(n, 4)

\* 2^31 and 2^32 - 1 as u32
TwoTo31 == <<0, 0, 0, 128>>
U32Max == <<255, 255, 255, 255>>

\* image widths and heights tried
Dims == {U32(0), U32(50), TwoTo31, U32Max}

\* strides tried: automatic, shorter than a row, a row of 50 RGB pixels, huge
Strides == {U32(0), U32(1), U32(150), TwoTo31}

\* buffer lengths tried
ImageLens == {0, 7499, 7500}

\* HashOptions tried: every pixel format without flags, and one value with every flag
OptionsInputs ==
    {[HashOptionsDefault EXCEPT !.pixel_format = f] : f \in PixelFormat}
        \cup {[pixel_format |-> "Bgra", remove_border |-> TRUE, no_rotate_flip |-> TRUE,
               verbose |-> TRUE, check_memory |-> TRUE]}

\* for the sub-region operation: a three-byte and a one-byte format, fewer sizes
SubOptionsInputs ==
    {[HashOptionsDefault EXCEPT !.pixel_format = f] : f \in {"Rgb", "Gray8"}}
SubDims == {U32(0), U32(50), TwoTo31}
SubStrides == {U32(0), U32(150)}
SubImageLens == {7499, 7500}

\* for compute_hash and border detection: one pixel format of each size
BorderOptionsInputs ==
    {[HashOptionsDefault EXCEPT !.pixel_format = f] :
        f \in {"Rgb", "Rgba", "Gray8", "Yuv420p"}}

\* regions tried for an image of the given size: corners near and far, empty and
\* non-empty extents, and the whole image
RegionInputs(width, height) ==
    {<<x, y, w, h>> : x \in {U32(0), U32(49), U32Max}, y \in {U32(0), U32Max},
                      w \in {U32(0), U32(1), U32(50)},
                      h \in {U32(0), U32(1)}}
        \cup {<<U32(0), U32(0), width, height>>}

NoRegion == <<>>

\* what PhotoDnaEdgeHash and PhotoDnaEdgeHashSub may return and write to the buffer
NativeHashAnswers ==
    [ret : {0, 1, PhotoDna_ErrorImageTooSmall, -9999}, hash : {"hA", "hB"}]

\* the slots PhotoDnaEdgeHashBorder may leave behind
Slot0Values ==
    {HashResultDefault}
        \cup [result : {1, PhotoDna_ErrorImageIsFlat}, x : {0}, y : {0}, w : {50}, h : {50},
              head : {"hA", "hB"}, tail : {"tA"}]
Slot1Values ==
    {HashResultDefault}
        \cup [result : {2, PhotoDna_ErrorNoBorderImageTooSmall}, x : {5}, y : {6},
              w : {40, 41}, h : {42}, head : {"hC"}, tail : {"tC"}]

\* what PhotoDnaEdgeHashBorder may return and leave in the two slots
NativeBorderAnswers ==
    {[ret |-> c, slots |-> <<s0, s1>>] :
        c \in {PhotoDna_ErrorImageTooSmall, 0, 1, 2, 3},
        s0 \in Slot0Values, s1 \in Slot1Values}

\* an answer for runs that never reach native code, where it is not looked at
AnyHashAnswer == [ret |-> 0, hash |-> "hA"]
AnyBorderAnswer == [ret |-> 1, slots |-> <<HashResultDefault, HashResultDefault>>]

\* whether the run d called native code
Reached(d) == d.native.entry # "none"

(***************************************************************************)
(* The operations as steps of the program.  The operations are synchronous:*)
(* the caller holds the result of one operation in `call` and takes it     *)
(* before it issues the next one.  A run that reaches native code is tried *)
(* with every answer of the native module.                                 *)
(***************************************************************************)
\* the record of an operation: its name, its arguments and what it did
Record(op, image_len, width, height, stride, region, options, d) ==
    [op |-> op, image_len |-> image_len, width |-> width, height |-> height,
     stride |-> stride, region |-> region, options |-> options,
     trace |-> d.trace, native |-> d.native, nat |-> d.nat, result |-> d.result]

ComputeHashWithStride ==
    /\ state = "Loaded"
    /\ call = NoCall
    /\ \E image_len \in ImageLens, width \in Dims, height \in Dims, stride \in Strides,
          options \in OptionsInputs :
          LET d0 == compute_hash_with_stride(build, library_instance, image_len, width,
                                             height, stride, options, AnyHashAnswer)
          IN  \E d \in IF ~Reached(d0) THEN {d0}
                       ELSE {compute_hash_with_stride(build, library_instance, image_len,
                                 width, height, stride, options, nat) :
                                 nat \in NativeHashAnswers} :
                  call' = Record("compute_hash_with_stride", image_len, width, height,
                                 stride, NoRegion, options, d)
    /\ UNCHANGED <<build, state, library, fn_table, library_instance, log, new_result, hashes>>

ComputeHash ==
    /\ state = "Loaded"
    /\ call = NoCall
    /\ \E image_len \in ImageLens, width \in Dims, height \in Dims,
          options \in BorderOptionsInputs :
          LET d0 == compute_hash(build, library_instance, image_len, width, height,
                                 options, AnyHashAnswer)
          IN  \E d \in IF ~Reached(d0) THEN {d0}
                       ELSE {compute_hash(build, library_instance, image_len, width,
                                 height, options, nat) : nat \in NativeHashAnswers} :
                  call' = Record("compute_hash", image_len, width, height,
                                 U32(0), NoRegion, options, d)
    /\ UNCHANGED <<build, state, library, fn_table, library_instance, log, new_result, hashes>>

\* a compute_hash_rgb that gives up the resolved functions when the call fails
ComputeHashRgb_forgets_functions ==
    /\ state = "Loaded"
    /\ call = NoCall
    /\ \E image_len \in ImageLens, width \in Dims, height \in Dims :
          LET d0 == compute_hash_rgb(build, library_instance, image_len, width, height,
                                     AnyHashAnswer)
          IN  \E d \in IF ~Reached(d0) THEN {d0}
                       ELSE {compute_hash_rgb(build, library_instance, image_len, width,
                                 height, nat) : nat \in NativeHashAnswers} :
                  /\ call' = Record("compute_hash_rgb", image_len, width, height,
                                    U32(0), NoRegion, HashOptionsDefault, d)
                  /\ fn_table' = IF d.result.kind = "Err" THEN {} ELSE fn_table
    /\ UNCHANGED <<build, state, library, library_instance, log, new_result, hashes>>

\* Generator::compute_hash_rgb
ComputeHashRgb ==
    /\ state = "Loaded"
    /\ call = NoCall
    /\ \E image_len \in ImageLens, width \in Dims, height \in Dims :
          LET d0 == compute_hash_rgb(build, library_instance, image_len, width, height,
                                     AnyHashAnswer)
          IN  \E d \in IF ~Reached(d0) THEN {d0}
                       ELSE {compute_hash_rgb(build, library_instance, image_len, width,
                                 height, nat) : nat \in NativeHashAnswers} :
                  call' = Record("compute_hash_rgb", image_len, width, height,
                                 U32(0), NoRegion, HashOptionsDefault, d)
    /\ UNCHANGED <<build, state, library, fn_table, library_instance, log, new_result, hashes>>

ComputeHashSubregion ==
    /\ state = "Loaded"
    /\ call = NoCall
    /\ \E image_len \in SubImageLens, width \in SubDims, height \in SubDims,
          stride \in SubStrides, options \in SubOptionsInputs :
          \E region \in RegionInputs(width, height) :
              LET d0 == compute_hash_subregion(build, library_instance, image_len, width,
                            height, stride, region, options, AnyHashAnswer)
              IN  \E d \in IF ~Reached(d0) THEN {d0}
                           ELSE {compute_hash_subregion(build, library_instance, image_len,
                                     width, height, stride, region, options, nat) :
                                     nat \in NativeHashAnswers} :
                      call' = Record("compute_hash_subregion", image_len, width, height,
                                     stride, region, options, d)
    /\ UNCHANGED <<build, state, library, fn_table, library_instance, log, new_result, hashes>>

ComputeHashWithBorderDetection ==
    /\ state = "Loaded"
    /\ call = NoCall
    /\ \E image_len \in ImageLens, width \in Dims, height \in Dims,
          options \in BorderOptionsInputs :
          LET d0 == compute_hash_with_border_detection(build, library_instance, image_len,
                        width, height, options, AnyBorderAnswer)
          IN  \E d \in IF ~Reached(d0) THEN {d0}
                       ELSE {compute_hash_with_border_detection(build, library_instance,
                                 image_len, width, height, options, nat) :
                                 nat \in NativeBorderAnswers} :
                  call' = Record("compute_hash_with_border_detection", image_len, width,
                                 height, U32(0), NoRegion, options, d)
    /\ UNCHANGED <<build, state, library, fn_table, library_instance, log, new_result, hashes>>

\* Generator::last_error_code: EdgeHashGenerator::get_error_number
LastErrorCode ==
    /\ state = "Loaded"
    /\ call = NoCall
    /\ \E v \in {0, PhotoDna_ErrorImageTooSmall} :
          call' = [op |-> "last_error_code",
                   native |-> [entry |-> "GetErrorNumber", instance |-> library_instance],
                   result |-> [kind |-> "Value", value |-> v]]
    /\ UNCHANGED <<build, state, library, fn_table, library_instance, log, new_result, hashes>>

\* the caller takes the result of the operation (matches on it, as in the crate's
\* error-handling example) and is free to issue the next one
TakeResult ==
    /\ call # NoCall
    /\ call' = NoCall
    /\ UNCHANGED <<build, state, library, fn_table, library_instance, log, new_result, hashes>>

(***************************************************************************)
(* Hash (photodna/src/hash.rs).  A Hash is its 924-byte array and its      *)
(* length; strings are sequences of their UTF-8 bytes.                     *)
(***************************************************************************)
\* [0u8; HASH_SIZE]
ZeroBytes == [i \in 1..HASH_SIZE |-> 0]

\* impl Default for Hash
HashDefault == [bytes |-> ZeroBytes, len |-> HASH_SIZE]

\* Hash::zeroed
zeroed == [bytes |-> ZeroBytes, len |-> 0]

\* a from_slice that also refuses a slice that fills the array
from_slice_below_capacity(slice) ==
    IF Len(slice) >= HASH_SIZE THEN None
    ELSE Some([bytes |-> [i \in 1..HASH_SIZE |-> IF i <= Len(slice) THEN slice[i] ELSE 0],
               len |-> Len(slice)])

\* Hash::from_slice
from_slice(slice) ==
    IF Len(slice) > HASH_SIZE THEN None
    ELSE Some([bytes |-> [i \in 1..HASH_SIZE |-> IF i <= Len(slice) THEN slice[i] ELSE 0],
               len |-> Len(slice)])

\* Hash::as_bytes: &self.bytes[..self.len], which panics when len is beyond the array
as_bytes(h) == IF h.len <= Len(h.bytes) THEN SubSeq(h.bytes, 1, h.len) ELSE Panic

\* the ASCII codes of the digits written by {:02x} and {:02X}
LowerDigits == <<48, 49, 50, 51, 52, 53, 54, 55, 56, 57, 97, 98, 99, 100, 101, 102>>
UpperDigits == <<48, 49, 50, 51, 52, 53, 54, 55, 56, 57, 65, 66, 67, 68, 69, 70>>

\* two digits for each of the first len bytes, high nibble first
HexOf(h, digits) ==
    [j \in 1..(2 * h.len) |->
        LET byte == h.bytes[(j + 1) \div 2]
        IN  IF j % 2 = 1 THEN digits[(byte \div 16) + 1] ELSE digits[(byte % 16) + 1]]

\* Hash::to_hex and Hash::to_hex_upper
to_hex(h) == HexOf(h, LowerDigits)
to_hex_upper(h) == HexOf(h, UpperDigits)

\* a hex_digit_value that knows no upper-case digits
hex_digit_value_lower_only(c) ==
    IF c >= 48 /\ c <= 57 THEN Some(c - 48)
    ELSE IF c >= 97 /\ c <= 102 THEN Some(c - 97 + 10)
    ELSE None

\* hex_digit_value: b'0'..=b'9', b'a'..=b'f', b'A'..=b'F'
hex_digit_value(c) ==
    IF c >= 48 /\ c <= 57 THEN Some(c - 48)
    ELSE IF c >= 97 /\ c <= 102 THEN Some(c - 97 + 10)
    ELSE IF c >= 65 /\ c <= 70 THEN Some(c - 65 + 10)
    ELSE None

\* Hash::from_hex; the loop returns None at the first chunk with a character that is
\* no digit
from_hex(hex) ==
    LET byte_len == Len(hex) \div 2
    IN  IF Len(hex) % 2 # 0 THEN None
        ELSE IF byte_len > HASH_SIZE THEN None
        ELSE IF \E j \in 1..Len(hex) : hex_digit_value(hex[j]) = None THEN None
        ELSE Some([bytes |-> [i \in 1..HASH_SIZE |->
                                 IF i <= byte_len
                                 THEN hex_digit_value(hex[2 * i - 1]).value * 16
                                          + hex_digit_value(hex[2 * i]).value
                                 ELSE 0],
                   len |-> byte_len])

\* a set_len without the assertion
set_len_unchecked(h, len) == [hash |-> [h EXCEPT !.len = len], result |-> "Ok"]

\* Hash::set_len: the hash afterwards and whether the assertion failed
set_len(h, len) ==
    IF len <= HASH_SIZE THEN [hash |-> [h EXCEPT !.len = len], result |-> "Ok"]
    ELSE [hash |-> h, result |-> "Panic"]

\* a write through Hash::as_mut_bytes: as_mut_bytes()[i] = v, i counted from 0
write_byte(h, i, v) == [h EXCEPT !.bytes[i + 1] = v]

\* derive(PartialEq): the fields are compared one by one
eq(a, b) == a.bytes = b.bytes /\ a.len = b.len

\* derive(Hash): what is fed to the hasher, field by field
hash_feed(h) == <<h.bytes, h.len>>

(***************************************************************************)
(* PhotoDnaError: inputs and operations.                                   *)
(***************************************************************************)
\* the kinds that stand for a native code of their own
NamedKinds ==
    {"Unknown", "MemoryAllocationFailed", "LibraryFailure", "MemoryAccess", "InvalidHash",
     "HashFormatInvalidCharacters", "ImageTooSmall", "NoBorder", "BadArgument",
     "ImageIsFlat", "NoBorderImageTooSmall", "SourceFormatUnknown", "InvalidStride",
     "InvalidSubImage"}

\* i32 codes tried: the documented codes, their neighbours, and values far from them
CodeInputs ==
    (-7016..-6998) \cup {-2147483647 - 1, -9999, -1, 0, 1, 7006, 2147483647}

\* PhotoDnaError values tried: every variant, the data-carrying ones with several values
ErrorInputs ==
    [kind : NamedKinds]
        \cup {[kind |-> "UnknownErrorCode", code |-> c] : c \in CodeInputs}
        \cup {[kind |-> "InitializationFailed", message |-> m] :
                m \in {"Failed to load library", "Initialization returned null"}}
        \cup {BufferTooSmall(U32(7500), U32(7499)), BufferTooSmall(U32(1), U32(0))}
        \cup {InvalidDimensions(0, 0), InvalidDimensions(0, -1)}

FromErrorCode ==
    /\ call = NoCall
    /\ \E code \in CodeInputs :
          call' = [op |-> "from_error_code", code |-> code, result |-> from_error_code(code)]
    /\ UNCHANGED <<build, state, library, fn_table, library_instance, log, new_result, hashes>>

ErrorCode ==
    /\ call = NoCall
    /\ \E e \in ErrorInputs :
          call' = [op |-> "error_code", error |-> e, result |-> error_code(e)]
    /\ UNCHANGED <<build, state, library, fn_table, library_instance, log, new_result, hashes>>

IsRecoverable ==
    /\ call = NoCall
    /\ \E e \in ErrorInputs :
          call' = [op |-> "is_recoverable", error |-> e, result |-> is_recoverable(e)]
    /\ UNCHANGED <<build, state, library, fn_table, library_instance, log, new_result, hashes>>

IsInputError ==
    /\ call = NoCall
    /\ \E e \in ErrorInputs :
          call' = [op |-> "is_input_error", error |-> e, result |-> is_input_error(e)]
    /\ UNCHANGED <<build, state, library, fn_table, library_instance, log, new_result, hashes>>

(***************************************************************************)
(* Hash: the conversions applied to byte sequences and strings.            *)
(***************************************************************************)
\* the byte sequence of length n whose i-th byte is (a * i + b) mod 256
Pattern(n, a, b) == [i \in 1..n |-> (a * i + b) % 256]

\* slices tried: empty, short, one below, at and above the capacity
SliceInputs ==
    {Pattern(n, ab[1], ab[2]) :
        n \in {0, 1, 2, 3, HASH_SIZE - 1, HASH_SIZE, HASH_SIZE + 1, HASH_SIZE + 2},
        ab \in {<<0, 0>>, <<0, 171>>, <<0, 255>>, <<7, 3>>}}

\* strings tried: every byte value in either place of a pair; runs of one digit of
\* even and odd length up to and beyond twice the capacity; full-length strings with
\* one character that is no digit; digits of both cases mixed
PairInputs == {<<c, 48>> : c \in 0..255} \cup {<<70, c>> : c \in 0..255}

RunInputs ==
    {[i \in 1..n |-> c] :
        n \in {0, 1, 3, 4, 2 * HASH_SIZE - 2, 2 * HASH_SIZE - 1, 2 * HASH_SIZE,
               2 * HASH_SIZE + 1, 2 * HASH_SIZE + 2},
        c \in {57, 70, 97}}

SpoiledInputs ==
    {[[i \in 1..n |-> 97] EXCEPT ![k] = c] :
        n \in {2 * HASH_SIZE, 2 * HASH_SIZE + 2}, k \in {1, 2 * HASH_SIZE - 1, 2 * HASH_SIZE},
        c \in {32, 71, 103}}

HexInputs ==
    PairInputs \cup RunInputs \cup SpoiledInputs \cup {<<97, 66, 67, 100>>, <<195, 169>>}

FromSlice ==
    /\ call = NoCall
    /\ \E slice \in SliceInputs :
          call' = [op |-> "from_slice", slice |-> slice, result |-> from_slice(slice)]
    /\ UNCHANGED <<build, state, library, fn_table, library_instance, log, new_result, hashes>>

FromHex ==
    /\ call = NoCall
    /\ \E hex \in HexInputs :
          call' = [op |-> "from_hex", hex |-> hex, result |-> from_hex(hex)]
    /\ UNCHANGED <<build, state, library, fn_table, library_instance, log, new_result, hashes>>

\* from_slice, then to_hex or to_hex_upper, then from_hex, as the round-trip fuzz
\* target does
HexRoundTrip ==
    /\ call = NoCall
    /\ \E slice \in {x \in SliceInputs : from_slice(x).some}, upper \in BOOLEAN :
          LET original == from_slice(slice).value
              hex == IF upper THEN to_hex_upper(original) ELSE to_hex(original)
          IN  call' = [op |-> "hex_roundtrip", slice |-> slice, upper |-> upper,
                       original |-> original, hex |-> hex, result |-> from_hex(hex)]
    /\ UNCHANGED <<build, state, library, fn_table, library_instance, log, new_result, hashes>>

(***************************************************************************)
(* Hash: two values a caller holds, made and changed by the public         *)
(* operations.                                                             *)
(***************************************************************************)
Slots == {1, 2}

\* arrays given to Hash::new
NewInputs == {Pattern(HASH_SIZE, 0, 171)}

\* slices and strings a held value is made from
HeldSliceInputs == {Pattern(n, 0, 171) : n \in {0, 1, 2, HASH_SIZE + 1}}
HeldHexInputs == {<<>>, <<97, 98>>, <<65, 66, 65, 66>>, <<97, 98, 99>>}

\* places written through as_mut_bytes (counted from 0) and the values written
WriteOffsets == {1, HASH_SIZE - 1}
WriteValues == {0, 171}

\* arguments of set_len
LenInputs == {0, 1, 2, HASH_SIZE, HASH_SIZE + 1}

HoldNew ==
    /\ call = NoCall
    /\ \E i \in Slots, bytes \in NewInputs :
          /\ hashes' = [hashes EXCEPT ![i] = HashNew(bytes)]
          /\ call' = [op |-> "new", slot |-> i]
    /\ UNCHANGED <<build, state, library, fn_table, library_instance, log, new_result>>

HoldDefault ==
    /\ call = NoCall
    /\ \E i \in Slots :
          /\ hashes' = [hashes EXCEPT ![i] = HashDefault]
          /\ call' = [op |-> "default", slot |-> i]
    /\ UNCHANGED <<build, state, library, fn_table, library_instance, log, new_result>>

HoldZeroed ==
    /\ call = NoCall
    /\ \E i \in Slots :
          /\ hashes' = [hashes EXCEPT ![i] = zeroed]
          /\ call' = [op |-> "zeroed", slot |-> i]
    /\ UNCHANGED <<build, state, library, fn_table, library_instance, log, new_result>>

\* if let Some(h) = Hash::from_slice(..) { slot = h }
HoldFromSlice ==
    /\ call = NoCall
    /\ \E i \in Slots, slice \in HeldSliceInputs :
          LET r == from_slice(slice)
          IN  /\ hashes' = IF r.some THEN [hashes EXCEPT ![i] = r.value] ELSE hashes
              /\ call' = [op |-> "from_slice", slot |-> i, slice |-> slice, result |-> r]
    /\ UNCHANGED <<build, state, library, fn_table, library_instance, log, new_result>>

\* if let Some(h) = Hash::from_hex(..) { slot = h }
HoldFromHex ==
    /\ call = NoCall
    /\ \E i \in Slots, hex \in HeldHexInputs :
          LET r == from_hex(hex)
          IN  /\ hashes' = IF r.some THEN [hashes EXCEPT ![i] = r.value] ELSE hashes
              /\ call' = [op |-> "from_hex", slot |-> i, hex |-> hex, result |-> r]
    /\ UNCHANGED <<build, state, library, fn_table, library_instance, log, new_result>>

\* slot.as_mut_bytes()[offset] = value
WriteByte ==
    /\ call = NoCall
    /\ \E i \in Slots, offset \in WriteOffsets, value \in WriteValues :
          /\ hashes' = [hashes EXCEPT ![i] = write_byte(hashes[i], offset, value)]
          /\ call' = [op |-> "as_mut_bytes", slot |-> i, offset |-> offset, value |-> value]
    /\ UNCHANGED <<build, state, library, fn_table, library_instance, log, new_result>>

\* slot.set_len(len); a failed assertion unwinds and leaves the value as it was
SetLen ==
    /\ call = NoCall
    /\ \E i \in Slots, len \in LenInputs :
          LET r == set_len(hashes[i], len)
          IN  /\ hashes' = [hashes EXCEPT ![i] = r.hash]
              /\ call' = [op |-> "set_len", slot |-> i, len |-> len,
                          before |-> hashes[i].len, result |-> r.result]
    /\ UNCHANGED <<build, state, library, fn_table, library_instance, log, new_result>>

\* slot.as_bytes()
AsBytes ==
    /\ call = NoCall
    /\ \E i \in Slots :
          call' = [op |-> "as_bytes", slot |-> i, result |-> as_bytes(hashes[i])]
    /\ UNCHANGED <<build, state, library, fn_table, library_instance, log, new_result, hashes>>

\* a == b, and whether a and b feed the same data to a hasher
Compare ==
    /\ call = NoCall
    /\ call' = [op |-> "eq", result |-> eq(hashes[1], hashes[2]),
                same_hash |-> hash_feed(hashes[1]) = hash_feed(hashes[2])]
    /\ UNCHANGED <<build, state, library, fn_table, library_instance, log, new_result, hashes>>

(***************************************************************************)
(* HashOptions: the option word.                                           *)
(***************************************************************************)
ToSysOptions ==
    /\ call = NoCall
    /\ \E options \in HashOptions :
          call' = [op |-> "to_sys_options", options |-> options,
                   result |-> to_sys_options(options)]
    /\ UNCHANGED <<build, state, library, fn_table, library_instance, log, new_result, hashes>>

(***************************************************************************)
(* Specifications.                                                         *)
(***************************************************************************)
\* the hash operations of a generator that was constructed successfully
Init ==
    /\ build \in {b \in Builds : ~b.no_sdk}
    /\ \E inst \in {CHOOSE h \in Handles : TRUE} :
          LET r == EdgeHashGeneratorNew(build, GeneratorOptionsDefault.library_dir,
                                        GeneratorOptionsDefault.max_threads,
                                        TRUE, SymbolSet, TRUE, inst)
          IN  /\ log = r.log
              /\ library = r.library
              /\ fn_table = r.fns
              /\ library_instance = r.instance
    /\ state = "Loaded"
    /\ new_result = "Ok"
    /\ call = NoCall
    /\ hashes = <<>>

Next ==
    \/ ComputeHashWithStride
    \/ ComputeHash
    \/ ComputeHashRgb
    \/ ComputeHashSubregion
    \/ ComputeHashWithBorderDetection
    \/ TakeResult

Spec == Init /\ [][Next]_vars

\* the life of a generator: construction, operations, teardown
InitLifecycle ==
    /\ build \in Builds
    /\ state = "Uninitialized"
    /\ library = "none"
    /\ fn_table = {}
    /\ library_instance = NULL
    /\ log = <<>>
    /\ new_result = "none"
    /\ call = NoCall
    /\ hashes = <<>>

NextLifecycle ==
    \/ GeneratorNew
    \/ ComputeHashRgb
    \/ LastErrorCode
    \/ TakeResult
    \/ Drop

SpecLifecycle == InitLifecycle /\ [][NextLifecycle]_vars

\* the functions of PhotoDnaError, which need no generator
NextErrors ==
    \/ FromErrorCode
    \/ ErrorCode
    \/ IsRecoverable
    \/ IsInputError
    \/ TakeResult

SpecErrors == InitLifecycle /\ [][NextErrors]_vars

\* the Hash type calls no native code and does no arithmetic that depends on the
\* build, so one build stands for all
InitHash ==
    /\ build = CHOOSE b \in Builds : ~b.no_sdk
    /\ state = "Uninitialized"
    /\ library = "none"
    /\ fn_table = {}
    /\ library_instance = NULL
    /\ log = <<>>
    /\ new_result = "none"
    /\ call = NoCall

\* the conversions of Hash applied to inputs
InitHashCodec == InitHash /\ hashes = <<>>

NextHashCodec ==
    \/ FromSlice
    \/ FromHex
    \/ HexRoundTrip
    \/ TakeResult

SpecHashCodec == InitHashCodec /\ [][NextHashCodec]_vars

\* two Hash values, both Hash::default() at first
InitHashValues == InitHash /\ hashes = <<HashDefault, HashDefault>>

NextHashValues ==
    \/ HoldNew
    \/ HoldDefault
    \/ HoldZeroed
    \/ HoldFromSlice
    \/ HoldFromHex
    \/ WriteByte
    \/ SetLen
    \/ AsBytes
    \/ Compare
    \/ TakeResult

SpecHashValues == InitHashValues /\ [][NextHashValues]_vars

\* the option word of every HashOptions value
NextOptions ==
    \/ ToSysOptions
    \/ TakeResult

SpecOptions == InitHashCodec /\ [][NextOptions]_vars

(***************************************************************************)
(* Properties of the generator's construction and teardown.                *)
(***************************************************************************)
\* positions of the events of kind op in the log
Positions(op) == {i \in 1..Len(log) : log[i].op = op}

\* C1: a generator that was constructed is torn down by one call of native release,
\* with the handle native init returned, followed by one unload of the module, and
\* neither happens before the teardown or a second time.
C1_TeardownOnce ==
    /\ state = "Loaded" =>
          /\ Positions("release") = {}
          /\ Positions("unload") = {}
    /\ state = "Released" =>
          /\ Cardinality(Positions("release")) = 1
          /\ Cardinality(Positions("unload")) = 1
          /\ Cardinality(Positions("init")) = 1
          /\ \A i \in Positions("release"), j \in Positions("init"), k \in Positions("unload") :
                /\ log[i].arg = log[j].ret
                /\ log[i].arg # NULL
                /\ j < i
                /\ i < k

\* a generator whose init returned the second handle was torn down, after an operation
C1_Witness ==
    /\ state = "Released"
    /\ call # NoCall
    /\ \E i \in Positions("release") : log[i].arg = 2

\* C2: construction is all or nothing.  When the load fails, a symbol is missing or
\* init returns null, new returns InitializationFailed; and whenever it does, there
\* is no generator, init was called only after all required symbols resolved,
\* release was not called, and the module is not left loaded.
C2_AllOrNothing ==
    /\ (\E i \in 1..Len(log) :
            \/ log[i].op = "load" /\ log[i].ret = FALSE
            \/ log[i].op = "get" /\ log[i].ret = "missing"
            \/ log[i].op = "init" /\ log[i].ret = NULL)
          => new_result = "InitializationFailed"
    /\ new_result = "InitializationFailed" =>
          /\ state = "Uninitialized"
          /\ library_instance = NULL
          /\ fn_table = {}
          /\ library # "loaded"
          /\ Positions("release") = {}
          /\ \A j \in Positions("init") :
                \A s \in SymbolSet :
                    \E i \in 1..(j - 1) :
                        log[i].op = "get" /\ log[i].arg = s /\ log[i].ret = "ok"
          /\ \A i \in Positions("load") :
                log[i].ret = TRUE =>
                    /\ Cardinality(Positions("unload")) = 1
                    /\ log[Len(log)].op = "unload"

\* a construction failed at the last step: everything resolved, init returned null
C2_Witness ==
    /\ new_result = "InitializationFailed"
    /\ \E i \in Positions("init") : log[i].ret = NULL

(***************************************************************************)
(* Properties of the hash operations.                                      *)
(***************************************************************************)
WholeImageOps ==
    {"compute_hash_with_stride", "compute_hash", "compute_hash_rgb",
     "compute_hash_with_border_detection"}

HashOps == WholeImageOps \cup {"compute_hash_subregion"}

\* the steps a run lists before it may call native code
ChecksOf(op) ==
    IF op = "compute_hash_subregion"
    THEN <<"region:pass", "dimensions:pass", "buffer_size:pass", "native">>
    ELSE <<"dimensions:pass", "buffer_size:pass", "native">>

\* the local error a failed check returns
LocalErrorOf(step) ==
    IF step = "dimensions:fail" THEN "InvalidDimensions"
    ELSE IF step = "buffer_size:fail" THEN "BufferTooSmall"
    ELSE "InvalidSubImage"

\* the buffer length of the call as a usize
CallLen == NatToDigits(call.image_len, build.usize_bytes)

\* the expected size the code computes for the call
CodeExpectedSize ==
    IF call.op = "compute_hash_with_border_detection"
    THEN ExpectedSizeBorder(build, call.width, call.height, call.options).val
    ELSE ExpectedSize(build, call.width, call.height, call.stride, call.options).val

\* the expected size of the call as a number: stride (or width * bytes per pixel
\* when stride is 0) times height, without any wrap
ExactExpectedSize ==
    LET bpp == NatToDigits(bytes_per_pixel(call.options.pixel_format), 1)
        row == IF IsZero(call.stride) THEN MulFull(call.width, bpp) ELSE call.stride
    IN  MulFull(row, call.height)

\* the region of the call exceeds the image, with the sums taken as numbers
RegionOutsideImage ==
    \/ DigitsLess(call.width, AddFull(call.region[1], call.region[3]))
    \/ DigitsLess(call.height, AddFull(call.region[2], call.region[4]))

\* the region check as the code evaluates it, on wrapped sums
CodeRegionCheckFails ==
    \/ Exceeds(U32Add(call.region[1], call.region[3]).val, call.width)
    \/ Exceeds(U32Add(call.region[2], call.region[4]).val, call.height)

\* C3: a hash operation calls its native entry point only after the dimension check,
\* the buffer-size check and, for a sub-region, the region check were made and
\* passed; a run in which a check failed returns that check's local error and
\* calls no native entry point.
C3_ChecksBeforeNative ==
    call.op \in HashOps =>
        /\ Reached(call) =>
              /\ call.trace = ChecksOf(call.op)
              /\ ~IsZero(call.width) /\ ~IsZero(call.height)
              /\ ~DigitsLess(CallLen, CodeExpectedSize)
              /\ call.op = "compute_hash_subregion" =>
                    /\ ~CodeRegionCheckFails
                    /\ ~IsZero(call.region[3]) /\ ~IsZero(call.region[4])
        /\ ~Reached(call) => "native" \notin {call.trace[i] : i \in 1..Len(call.trace)}
        /\ \A i \in 1..Len(call.trace) :
              call.trace[i] \in {"dimensions:fail", "buffer_size:fail", "region:fail"} =>
                  /\ ~Reached(call)
                  /\ call.result.kind = "Err"
                  /\ call.result.error.kind = LocalErrorOf(call.trace[i])

\* a sub-region run passed its three checks and called the native entry point
C3_Witness ==
    /\ call.op = "compute_hash_subregion"
    /\ Reached(call)
    /\ call.native.entry = "PhotoDnaEdgeHashSub"

\* C4: border detection fails closed: a native return other than a negative code,
\* 1 or 2 gives an error and no BorderHashResult.
C4_FailsClosed ==
    (/\ call.op = "compute_hash_with_border_detection"
     /\ Reached(call)
     /\ call.nat.ret >= 0
     /\ call.nat.ret \notin {1, 2})
        => call.result.kind = "Err"

\* the BorderHashResult made of slot 0 only
PrimaryOnly(slots) ==
    [kind |-> "OkBorder", primary |-> HashNew(slots[1].head),
     borderless |-> [some |-> FALSE], content_region |-> [some |-> FALSE]]

\* the BorderHashResult made of slot 0 and slot 1
WithBorderless(slots) ==
    [kind |-> "OkBorder", primary |-> HashNew(slots[1].head),
     borderless |-> [some |-> TRUE, hash |-> HashNew(slots[2].head)],
     content_region |-> [some |-> TRUE,
                         region |-> <<slots[2].x, slots[2].y, slots[2].w, slots[2].h>>]]

\* C5 as stated: a native return of 1 gives the primary hash of slot 0 and nothing
\* else, a return of 2 also the borderless hash and region of slot 1, and a negative
\* return the error mapped from it.
C5_AsStated ==
    (call.op = "compute_hash_with_border_detection" /\ Reached(call)) =>
        /\ call.nat.ret = 1 => call.result = PrimaryOnly(call.nat.slots)
        /\ call.nat.ret = 2 => call.result = WithBorderless(call.nat.slots)
        /\ call.nat.ret < 0 => call.result = Err(from_error_code(call.nat.ret))

\* C5: as above when the result field of every slot read is non-negative; a negative
\* result field of slot 0, or of slot 1 for a return of 2, gives the error mapped
\* from that field and no result value.
C5_BorderResult ==
    (call.op = "compute_hash_with_border_detection" /\ Reached(call)) =>
        LET slots == call.nat.slots
        IN  /\ call.nat.ret = 1 =>
                  call.result = IF slots[1].result < 0
                                THEN Err(from_error_code(slots[1].result))
                                ELSE PrimaryOnly(slots)
            /\ call.nat.ret = 2 =>
                  call.result = IF slots[1].result < 0
                                THEN Err(from_error_code(slots[1].result))
                                ELSE IF slots[2].result < 0
                                THEN Err(from_error_code(slots[2].result))
                                ELSE WithBorderless(slots)
            /\ call.nat.ret < 0 => call.result = Err(from_error_code(call.nat.ret))

\* native code reported a border and both slots carry a hash
C5_Witness ==
    /\ call.op = "compute_hash_with_border_detection"
    /\ Reached(call)
    /\ call.nat.ret = 2
    /\ call.nat.slots[1].result >= 0
    /\ call.nat.slots[2].result >= 0
    /\ call.result.kind = "OkBorder"
    /\ call.result.borderless.some

\* C6: a region whose right or bottom edge, as a number, lies beyond the image is
\* rejected with InvalidSubImage and the native entry point is not called.
C6_RegionBeyondImageRejected ==
    (call.op = "compute_hash_subregion" /\ RegionOutsideImage) =>
        /\ call.result = Err(InvalidSubImage)
        /\ ~Reached(call)

\* C7 as stated: a region of width 0 or height 0 is rejected with InvalidSubImage.
C7_AsStated ==
    (/\ call.op = "compute_hash_subregion"
     /\ IsZero(call.region[3]) \/ IsZero(call.region[4]))
        => call.result = Err(InvalidSubImage)

\* C7: a region of width 0 or height 0 never reaches native code; when it lies within
\* the image it is rejected with InvalidDimensions carrying the region's width and
\* height as i32, and it gets InvalidSubImage only when it exceeds the image.
C7_EmptyRegion ==
    (/\ call.op = "compute_hash_subregion"
     /\ IsZero(call.region[3]) \/ IsZero(call.region[4]))
        => /\ ~Reached(call)
           /\ ~RegionOutsideImage =>
                  call.result = Err(InvalidDimensions(AsI32(call.region[3]),
                                                      AsI32(call.region[4])))
           /\ call.result = Err(InvalidSubImage) => RegionOutsideImage

\* an empty region inside a 50 x 50 image was rejected
C7_Witness ==
    /\ call.op = "compute_hash_subregion"
    /\ call.width = U32(50) /\ call.height = U32(50)
    /\ call.region = <<U32(49), U32(0), U32(0), U32(1)>>
    /\ call.result.kind = "Err"
    /\ call.result.error.kind = "InvalidDimensions"

\* C8: the region covering the whole image passes the region check; the call does
\* not fail with a local InvalidSubImage, and it fails with InvalidDimensions only
\* when the image itself has width 0 or height 0.
C8_WholeImageRegion ==
    (/\ call.op = "compute_hash_subregion"
     /\ call.region = <<U32(0), U32(0), call.width, call.height>>)
        => /\ call.trace[1] = "region:pass"
           /\ call.result = Err(InvalidSubImage) => Reached(call)
           /\ (call.result.kind = "Err" /\ call.result.error.kind = "InvalidDimensions")
                  => (IsZero(call.width) \/ IsZero(call.height))

\* the whole of a 50 x 50 image was hashed as a region
C8_Witness ==
    /\ call.op = "compute_hash_subregion"
    /\ call.width = U32(50) /\ call.height = U32(50)
    /\ call.region = <<U32(0), U32(0), U32(50), U32(50)>>
    /\ Reached(call)
    /\ call.result.kind = "Ok"

\* C9: for non-zero width and height, a buffer shorter than the expected size
\* (stride, or width * bytes per pixel when stride is 0, times height) is rejected
\* with BufferTooSmall carrying that size and the buffer's length, and a buffer at
\* least that long passes the size check.
C9_BufferSizeRule ==
    (call.op \in WholeImageOps /\ ~IsZero(call.width) /\ ~IsZero(call.height)) =>
        IF DigitsLess(CallLen, ExactExpectedSize)
        THEN /\ call.result.kind = "Err"
             /\ call.result.error.kind = "BufferTooSmall"
             /\ DigitsEq(call.result.error.expected, ExactExpectedSize)
             /\ DigitsEq(call.result.error.actual, CallLen)
        ELSE Reached(call)

\* C10: a whole-image operation given width 0 or height 0 returns InvalidDimensions
\* carrying the width and the height it was given.
C10_ZeroDimension ==
    (call.op \in WholeImageOps /\ (IsZero(call.width) \/ IsZero(call.height))) =>
        /\ call.result.kind = "Err"
        /\ call.result.error.kind = "InvalidDimensions"
        /\ call.result.error.width >= 0
        /\ call.result.error.height >= 0
        /\ NatToDigits(call.result.error.width, 4) = call.width
        /\ NatToDigits(call.result.error.height, 4) = call.height

PrimaryOps == {"compute_hash_with_stride", "compute_hash", "compute_hash_rgb"}

\* C11: when compute_hash_with_stride (also through compute_hash and compute_hash_rgb)
\* or compute_hash_subregion has called its native entry point, a return value >= 0
\* gives Ok with a Hash of length 924 holding the bytes native code left in the output
\* buffer, and a return value < 0 gives the error from_error_code maps it to.
C11_NativeReturnMapped ==
    (call.op \in PrimaryOps \cup {"compute_hash_subregion"} /\ Reached(call)) =>
        /\ call.nat.ret >= 0 =>
              /\ call.result = [kind |-> "Ok", hash |-> [bytes |-> call.nat.hash, len |-> 924]]
              /\ call.result.hash.len = HASH_SIZE
        /\ call.nat.ret < 0 => call.result = Err(from_error_code(call.nat.ret))

\* the sub-region entry point returned a positive value and the hash was handed out
C11_Witness ==
    /\ call.op = "compute_hash_subregion"
    /\ Reached(call)
    /\ call.nat.ret = 1
    /\ call.result.kind = "Ok"
    /\ call.result.hash.bytes = "hB"

NamedErrors == [kind : NamedKinds]

NamedCodes == -7013..-7000

\* C12: between the 14 named kinds and the codes -7000..-7013, from_error_code and
\* error_code are inverse to each other, and no two named kinds have the same code.
C12_NamedBijection ==
    /\ (call.op = "from_error_code" /\ call.code \in NamedCodes) =>
          /\ call.result \in NamedErrors
          /\ error_code(call.result) = Some(call.code)
    /\ (call.op = "error_code" /\ call.error \in NamedErrors) =>
          /\ call.result.some
          /\ call.result.value \in NamedCodes
          /\ from_error_code(call.result.value) = call.error
    /\ call.op = "error_code" =>
          \A k \in NamedErrors :
              (k # call.error /\ call.error \in NamedErrors) => error_code(k) # call.result

\* the last named kind was turned into its code
C12_Witness ==
    /\ call.op = "error_code"
    /\ call.error = [kind |-> "InvalidSubImage"]
    /\ call.result = Some(-7013)

\* the codes the native header documents
DocumentedCodes ==
    {PhotoDna_ErrorUnknown, PhotoDna_ErrorMemoryAllocationFailed,
     PhotoDna_ErrorLibraryFailure, PhotoDna_ErrorMemoryAccess, PhotoDna_ErrorInvalidHash,
     PhotoDna_ErrorHashFormatInvalidCharacters, PhotoDna_ErrorImageTooSmall,
     PhotoDna_ErrorNoBorder, PhotoDna_ErrorBadArgument, PhotoDna_ErrorImageIsFlat,
     PhotoDna_ErrorNoBorderImageTooSmall, PhotoDna_ErrorSourceFormatUnknown,
     PhotoDna_ErrorInvalidStride, PhotoDna_ErrorInvalidSubImage}

\* C13: from_error_code of a negative code that is not documented is
\* UnknownErrorCode carrying that code, never a named kind.
C13_UnknownCodeKept ==
    (call.op = "from_error_code" /\ call.code < 0 /\ call.code \notin DocumentedCodes) =>
        /\ call.result = [kind |-> "UnknownErrorCode", code |-> call.code]
        /\ call.result.kind \notin NamedKinds

\* the code next below the documented range was mapped
C13_Witness ==
    /\ call.op = "from_error_code"
    /\ call.code = -7014
    /\ call.result.kind = "UnknownErrorCode"
    /\ call.result.code = -7014

LocalOnlyKinds == {"BufferTooSmall", "InvalidDimensions", "InitializationFailed"}

\* C14: error_code is None exactly for BufferTooSmall, InvalidDimensions and
\* InitializationFailed, and Some code for every other kind.
C14_ErrorCodeAbsent ==
    call.op = "error_code" =>
        /\ (call.result = None) <=> (call.error.kind \in LocalOnlyKinds)
        /\ call.error.kind \notin LocalOnlyKinds => call.result.some

\* error_code was asked for a local error and for an unknown code
C14_Witness ==
    /\ call.op = "error_code"
    /\ \/ call.error.kind = "BufferTooSmall" /\ call.result = None
       \/ call.error.kind = "UnknownErrorCode" /\ call.result = Some(-9999)

\* C15: is_recoverable is true exactly for MemoryAllocationFailed, LibraryFailure and
\* MemoryAccess, and false for every other kind, UnknownErrorCode of any code included.
C15_Recoverable ==
    call.op = "is_recoverable" =>
        /\ call.result <=>
              call.error.kind \in {"MemoryAllocationFailed", "LibraryFailure", "MemoryAccess"}
        /\ call.error.kind = "UnknownErrorCode" => ~call.result

\* is_recoverable was asked about an unknown code that equals a recoverable kind's code
C15_Witness ==
    /\ call.op = "is_recoverable"
    /\ call.error = [kind |-> "UnknownErrorCode", code |-> -7001]
    /\ call.result = FALSE

\* C16: is_input_error is true exactly for the nine caller-fixable kinds; hence it is
\* true for each error a failed local check of a hash operation returns, and no
\* error is both recoverable and an input error.
C16_InputError ==
    call.op = "is_input_error" =>
        /\ call.result <=>
              call.error.kind \in {"ImageTooSmall", "ImageIsFlat", "BadArgument",
                                   "InvalidStride", "InvalidSubImage", "SourceFormatUnknown",
                                   "BufferTooSmall", "InvalidDimensions",
                                   "NoBorderImageTooSmall"}
        /\ call.error.kind \in {LocalErrorOf(step) : step \in {"dimensions:fail",
                                    "buffer_size:fail", "region:fail"}} => call.result
        /\ ~(call.result /\ is_recoverable(call.error))

\* is_input_error was asked about the error of a failed buffer-size check
C16_Witness ==
    /\ call.op = "is_input_error"
    /\ call.error = BufferTooSmall(U32(7500), U32(7499))
    /\ call.result = TRUE

\* C17: from_slice of at most 924 bytes gives a hash with that length and those bytes,
\* and from_hex of its to_hex or to_hex_upper gives a hash with the same bytes and
\* length that is equal to it; from_slice of more than 924 bytes gives None.
C17_SliceHexRoundTrip ==
    /\ call.op = "from_slice" =>
          IF Len(call.slice) <= 924
          THEN /\ call.result.some
               /\ call.result.value.len = Len(call.slice)
               /\ as_bytes(call.result.value) = call.slice
          ELSE call.result = None
    /\ call.op = "hex_roundtrip" =>
          /\ Len(call.hex) = 2 * Len(call.slice)
          /\ call.result.some
          /\ call.result.value.len = Len(call.slice)
          /\ as_bytes(call.result.value) = call.slice
          /\ eq(call.result.value, call.original)

\* a hash that fills the capacity went through upper-case hex and back
C17_Witness ==
    /\ call.op = "hex_roundtrip"
    /\ Len(call.slice) = 924
    /\ call.slice[924] = (7 * 924 + 3) % 256
    /\ call.upper
    /\ call.result = Some(call.original)

\* the ASCII codes of 0-9, A-F and a-f
HexCharacters == (48..57) \cup (65..70) \cup (97..102)

\* the value of a hex digit, whatever its case
DigitValue(c) == IF c <= 57 THEN c - 48 ELSE IF c <= 70 THEN c - 55 ELSE c - 87

\* C18: from_hex succeeds exactly on strings of even length at most 1848 made of hex
\* digits only; then the length is half the string's, byte i is the value of the i-th
\* pair of digits in either case, and the bytes beyond the length are zero; every
\* other string gives None.
C18_FromHex ==
    call.op = "from_hex" =>
        LET hex == call.hex
            accepted == /\ Len(hex) % 2 = 0
                        /\ Len(hex) <= 1848
                        /\ \A j \in 1..Len(hex) : hex[j] \in HexCharacters
        IN  IF accepted
            THEN /\ call.result.some
                 /\ call.result.value.len = Len(hex) \div 2
                 /\ Len(call.result.value.bytes) = 924
                 /\ \A i \in 1..924 :
                       call.result.value.bytes[i] =
                           IF i <= Len(hex) \div 2
                           THEN 16 * DigitValue(hex[2 * i - 1]) + DigitValue(hex[2 * i])
                           ELSE 0
            ELSE call.result = None

\* a string of mixed case was decoded
C18_Witness ==
    /\ call.op = "from_hex"
    /\ call.hex = <<97, 66, 67, 100>>
    /\ call.result.some
    /\ as_bytes(call.result.value) = <<171, 205>>

\* C19: two Hash values made by the public operations are equal, and feed a hasher
\* the same data, exactly when their lengths are equal and their first len bytes are
\* equal, whatever the bytes beyond len are.
C19_EqualityByPrefix ==
    call.op = "eq" =>
        LET same == /\ hashes[1].len = hashes[2].len
                    /\ as_bytes(hashes[1]) = as_bytes(hashes[2])
        IN  /\ call.result <=> same
            /\ call.same_hash <=> same

\* C20: the length of a Hash never exceeds 924; set_len with more than 924 panics and
\* leaves the length as it was, set_len with at most 924 sets it, and as_bytes hands
\* out the first len bytes of the array.
C20_LenWithinCapacity ==
    /\ \A i \in DOMAIN hashes :
          /\ hashes[i].len <= 924
          /\ hashes[i].len <= Len(hashes[i].bytes)
    /\ call.op = "set_len" =>
          IF call.len > 924
          THEN call.result = "Panic" /\ hashes[call.slot].len = call.before
          ELSE call.result = "Ok" /\ hashes[call.slot].len = call.len
    /\ call.op = "as_bytes" =>
          /\ Len(call.result) = hashes[call.slot].len
          /\ \A j \in 1..Len(call.result) : call.result[j] = hashes[call.slot].bytes[j]

\* set_len was called with 925 on a hash of length 2 and refused
C20_Witness ==
    /\ call.op = "set_len"
    /\ call.len = 925
    /\ call.before = 2
    /\ call.result = "Panic"
    /\ hashes[call.slot].len = 2

\* 2^k for k in 0..30
Pow2(k) == 2 ^ k

\* bit k of a non-negative word
Bit(word, k) == (word \div Pow2(k)) % 2

\* C21: the option word has bit 7 of the hash-format field set, the pixel-layout
\* value of the format in bits 8-12, bit 21 iff remove_border, bit 24 iff
\* no_rotate_flip, bit 29 iff check_memory, bit 30 iff verbose, and no other bit;
\* RGB without flags gives 0x80, and remove_border changes bit 21 only.
C21_OptionWordLayout ==
    call.op = "to_sys_options" =>
        LET o == call.options
            layout == to_options(o.pixel_format)
            flag(b) == IF b THEN 1 ELSE 0
        IN  /\ call.result >= 0
            /\ layout % 256 = 0 /\ layout \div 256 \in 0..31
            /\ \A k \in 0..30 :
                  Bit(call.result, k) =
                      IF k = 7 THEN 1
                      ELSE IF k \in 8..12 THEN Bit(layout, k)
                      ELSE IF k = 21 THEN flag(o.remove_border)
                      ELSE IF k = 24 THEN flag(o.no_rotate_flip)
                      ELSE IF k = 29 THEN flag(o.check_memory)
                      ELSE IF k = 30 THEN flag(o.verbose)
                      ELSE 0
            /\ o = HashOptionsDefault => call.result = 128
            /\ o.remove_border =>
                  call.result = to_sys_options([o EXCEPT !.remove_border = FALSE]) + 2097152

\* the word of RGBA with remove_border, check_memory and verbose set
C21_Witness ==
    /\ call.op = "to_sys_options"
    /\ call.options = [pixel_format |-> "Rgba", remove_border |-> TRUE,
                       no_rotate_flip |-> FALSE, verbose |-> TRUE, check_memory |-> TRUE]
    /\ call.result = 128 + 256 + 2097152 + 536870912 + 1073741824

\* the pairs of formats that differ in channel order only
ChannelOrderPairs == {{"Rgb", "Bgr"}, {"Rgba", "Bgra"}, {"Argb", "Abgr"}}

\* C22: with equal flags, two distinct pixel formats give the same option word
\* exactly when they are RGB and BGR, RGBA and BGRA, or ARGB and ABGR; every other
\* pair of distinct formats differs in the pixel-layout bits 8-12.
C22_ChannelOrderShared ==
    call.op = "to_sys_options" =>
        \A f \in PixelFormat \ {call.options.pixel_format} :
            LET other == to_sys_options([call.options EXCEPT !.pixel_format = f])
            IN  IF {f, call.options.pixel_format} \in ChannelOrderPairs
                THEN other = call.result
                ELSE (other \div 256) % 32 # (call.result \div 256) % 32

\* the word of BGRA, which RGBA shares and pre-multiplied RGBA does not
C22_Witness ==
    /\ call.op = "to_sys_options"
    /\ call.options.pixel_format = "Bgra"
    /\ call.result = to_sys_options([call.options EXCEPT !.pixel_format = "Rgba"])
    /\ call.result # to_sys_options([call.options EXCEPT !.pixel_format = "RgbaPremultiplied"])

\* C23: every GeneratorOptions value the builder can make has max_threads >= 1, the
\* default has 4, and the thread count native init is called with is >= 1.
C23_MaxThreadsAtLeastOne ==
    /\ GeneratorOptionsDefault.max_threads = 4
    /\ \A o \in GeneratorOptionsInputs : o.max_threads >= 1
    /\ \A t \in ThreadInputs :
          max_threads(GeneratorOptionsDefault, t).max_threads = IF t >= 1 THEN t ELSE 1
    /\ \A i \in 1..Len(log) : log[i].op = "init" => log[i].arg >= 1

\* native init was called with 1, which only a clamped request gives
C23_Witness ==
    \E i \in 1..Len(log) : log[i].op = "init" /\ log[i].arg = 1

\* the step is an operation of the generator that calls a native entry point
CallsNative ==
    /\ call' # call
    /\ call' # NoCall
    /\ call'.native.entry # "none"

\* the step is an operation of the generator, whatever its outcome
IsOperation ==
    /\ call' # call
    /\ call' # NoCall

\* C24: the generator goes from Uninitialized to Loaded to Released and no other way.
\* A native hashing or introspection entry point is called only while Loaded: after
\* init returned the instance, which is not null, before release was called, with
\* that instance and with the module loaded.  Once Released nothing more is called.
C24_Lifecycle ==
    [][/\ CallsNative =>
             /\ state = "Loaded" /\ state' = "Loaded"
             /\ library = "loaded"
             /\ library_instance # NULL
             /\ call'.native.instance = library_instance
             /\ \E j \in Positions("init") : log[j].ret = library_instance
             /\ Positions("release") = {}
       /\ state = "Uninitialized" => state' \in {"Uninitialized", "Loaded"}
       /\ state = "Loaded" => state' \in {"Loaded", "Released"}
       /\ state = "Released" =>
             /\ state' = "Released"
             /\ log' = log
             /\ call' \in {call, NoCall}]_vars

\* a generator was released after it had hashed an image with its own instance
C24_Witness ==
    /\ state = "Released"
    /\ call.op = "compute_hash_rgb"
    /\ Reached(call)
    /\ call.result.kind = "Ok"
    /\ \E j \in Positions("init") : log[j].ret = call.native.instance

\* C25: an operation on a Loaded generator, whether it succeeds, fails a local check
\* or gets a native error, leaves the instance handle, the resolved functions and the
\* loaded module as they were and the generator Loaded.
C25_OperationsKeepGenerator ==
    [][IsOperation =>
           /\ state = "Loaded" /\ state' = "Loaded"
           /\ library_instance' = library_instance
           /\ fn_table' = fn_table
           /\ library' = library
           /\ log' = log]_vars

\* after an operation that got a native error the generator is as it was constructed
C25_Witness ==
    /\ state = "Loaded"
    /\ call.op = "compute_hash_rgb"
    /\ Reached(call)
    /\ call.result = Err([kind |-> "ImageTooSmall"])
    /\ fn_table = SymbolSet \ {"EdgeHashGeneratorInit"}
    /\ library_instance # NULL

\* C26 as stated: whenever error_code gives a code for an error, from_error_code of
\* that code is the error again, UnknownErrorCode of any integer included.
C26_AsStated ==
    (call.op = "error_code" /\ call.result.some) =>
        from_error_code(call.result.value) = call.error

\* C26: whenever error_code gives a code for an error, from_error_code of that code is
\* the error again, unless the error is UnknownErrorCode carrying one of the 14
\* documented codes: then from_error_code gives the named kind of that code.
C26_RoundTripFromError ==
    (call.op = "error_code" /\ call.result.some) =>
        IF call.error.kind = "UnknownErrorCode" /\ call.error.code \in DocumentedCodes
        THEN /\ from_error_code(call.result.value) \in NamedErrors
             /\ error_code(from_error_code(call.result.value)) = call.result
             /\ from_error_code(call.result.value) # call.error
        ELSE from_error_code(call.result.value) = call.error

\* an unknown code outside the documented range went to its code and back
C26_Witness ==
    /\ call.op = "error_code"
    /\ call.error = [kind |-> "UnknownErrorCode", code |-> -9999]
    /\ call.result = Some(-9999)
    /\ from_error_code(call.result.value) = call.error

\* C27: compute_hash_subregion given image width 0 or height 0 returns InvalidDimensions
\* carrying the image's width and height, whatever the region is.
C27_SubregionZeroImage ==
    (call.op = "compute_hash_subregion" /\ (IsZero(call.width) \/ IsZero(call.height))) =>
        /\ call.result.kind = "Err"
        /\ call.result.error.kind = "InvalidDimensions"
        /\ call.result.error.width >= 0
        /\ call.result.error.height >= 0
        /\ NatToDigits(call.result.error.width, 4) = call.width
        /\ NatToDigits(call.result.error.height, 4) = call.height

\* the operations that call the primary or the sub-region entry point
StridedOps == PrimaryOps \cup {"compute_hash_subregion"}

\* C28: when the primary or the sub-region entry point is called, the stride passed
\* is 0 or at least width * bytes_per_pixel(format).
C28_StrideCoversRow ==
    (call.op \in StridedOps /\ Reached(call)) =>
        /\ call.native.stride = AsI32(call.stride)
        /\ \/ call.native.stride = 0
           \/ /\ call.native.stride > 0
              /\ ~DigitsLess(call.stride,
                     MulFull(call.width,
                             NatToDigits(bytes_per_pixel(call.options.pixel_format), 1)))

\* the i32 value v is the number the u32 value u stands for
SameNumber(v, u) == v >= 0 /\ NatToDigits(v, 4) = u

\* C29: the i32 width, height, stride and region values handed to native code are
\* numerically the u32 values the caller gave.
C29_NativeGetsCallerValues ==
    (call.op \in HashOps /\ Reached(call)) =>
        /\ SameNumber(call.native.width, call.width)
        /\ SameNumber(call.native.height, call.height)
        /\ SameNumber(call.native.stride, call.stride)
        /\ call.op = "compute_hash_subregion" =>
              /\ SameNumber(call.native.x, call.region[1])
              /\ SameNumber(call.native.y, call.region[2])
              /\ SameNumber(call.native.w, call.region[3])
              /\ SameNumber(call.native.h, call.region[4])

====
